---- MODULE Spec2Model ----
(***************************************************************************)
(* Model of src/src/main.rs: the Fibonacci chip (FiboChip), the circuit    *)
(* assembler (MyCircuit::configure / MyCircuit::synthesize) and the run of *)
(* main (MockProver::run followed by assert_satisfied).                    *)
(*                                                                         *)
(* Reading of the source.  The file carries editor parameter hints in the  *)
(* call sites ("offset: 0", "to: ||", "op: ACell") and stray semicolons;   *)
(* the model follows the data flow the text names: which expression is     *)
(* handed to which column, which results carry a `?` and which do not.     *)
(*   - a call whose result carries `?` returns the error to its caller;    *)
(*   - a call whose result carries no `?` (line 153, lines 208-213 and     *)
(*     218-222) has its error dropped and the caller goes on;              *)
(*   - a failed chip call hands no cell to synthesize: the cell bound from *)
(*     it is NoCell, which has no position and no value.                   *)
(*   - `c` at line 170 is read as c_val of line 160, the one Option in     *)
(*     scope.                                                              *)
(*                                                                         *)
(* The layouter and the constraint-system backend are the halo2 library.   *)
(* The layouter gives every region the next row.  The backend either       *)
(* evaluates the value closures (mode "witness": MockProver, the prover)   *)
(* or never calls them (mode "shape": key generation), and it may reject   *)
(* an operation (at most MaxFaults times in a run).                        *)
(***************************************************************************)
EXTENDS Integers, Sequences, FiniteSets, TLC

\* ---------------------------------------------------------------- bounds
\* Modulus of the stand-in field for FieldExt / pasta::Fp.
P == 61
\* Present seeds are drawn from 0..MaxSeed.
MaxSeed == 2
\* Backend operations rejected in one run.
MaxFaults == 1

\* ------------------------------------------------------ program constants
\* for _i in 3..10
LoopLo == 3
LoopHiMut == LoopLo + 8
LoopHi == 10

\* ------------------------------------------------------------ Option<F>
None == <<>>
Some(v) == <<v>>
IsSome(o) == Len(o) = 1
Get(o) == o[1]
Field == 0..(P - 1)
FAdd(x, y) == (x + y) % P
FSub(x, y) == (x + P - y) % P

\* a.and_then(|a| b.map(|b| a + b))
OptAdd(x, y) == IF IsSome(x) /\ IsSome(y) THEN Some(FAdd(Get(x), Get(y))) ELSE None

\* ------------------------------------------------------- cells and rows
\* A table cell: not yet assigned, or assigned with an optional value.
Unassigned == [set |-> FALSE, val |-> None]
Assigned(o) == [set |-> TRUE, val |-> o]
EmptyRow == [sel |-> FALSE, a |-> Unassigned, b |-> Unassigned, c |-> Unassigned]

\* ACell: an assigned cell's position and the value it was given.
ACell(col, row, o) == [col |-> col, row |-> row, val |-> o]
NoCell == [col |-> "none", row |-> 0, val |-> None]

Modes == {"witness", "shape"}
FirstRowSteps == {"enable", "a", "b", "c"}
RowSteps == {"enable", "copy_a", "copy_b", "c"}

VARIABLES mode, a, b, cs, pc, i, trace, copies, prev_b, prev_c, calls, faults, ret, verdict

vars == <<mode, a, b, cs, pc, i, trace, copies, prev_b, prev_c, calls, faults, ret, verdict>>

\* --------------------------------------------------------- configuration
NoCs == [advice |-> {}, instance |-> {}, selectors |-> {}, equality |-> {},
         gates |-> {}, config_advice |-> <<>>, config_selector |-> "none"]

\* FiboChip::configure(meta, advice, instance): one more selector, equality on
\* the three advice columns and on whatever was passed as `instance`, the gate
\* "add", and the config (advice, selector).
FiboChipConfigure(meta, advice, instance) ==
  LET selector == "s1"
  IN [meta EXCEPT
        !.selectors = @ \cup {selector},
        !.equality = @ \cup {advice[1], advice[2], advice[3]}
                       \cup (IF instance \in meta.instance THEN {instance} ELSE {}),
        !.gates = @ \cup {[name |-> "add", selector |-> selector,
                           a |-> advice[1], b |-> advice[2], c |-> advice[3]]},
        !.config_advice = advice,
        !.config_selector = selector]

\* MyCircuit::configure: three advice columns, a selector, and the chip's
\* configure called with that selector in the place of the instance column.
MyCircuitConfigure ==
  LET meta == [NoCs EXCEPT !.advice = {"a", "b", "c"}, !.selectors = {"s0"}]
  IN FiboChipConfigure(meta, <<"a", "b", "c">>, "s0")

\* ------------------------------------------------------------- backend
\* region.assign_advice(.., to): rejected by the backend, or (witness mode)
\* the closure is evaluated and an absent value is Error::Synthesis, or
\* (shape mode) the closure is not called and the cell carries no value.
AssignAdvice(m, o, rejected) ==
  IF rejected THEN [err |-> "Backend", val |-> None]
  ELSE IF m = "shape" THEN [err |-> "none", val |-> None]
  ELSE IF IsSome(o) THEN [err |-> "none", val |-> o]
  ELSE [err |-> "Synthesis", val |-> None]

\* --------------------------------------------------- assign_first_row
\* The values handed to the three assign_advice calls of the first row.
FirstRowAValue(x, y) == x
FirstRowBValue(x, y) == x
FirstRowCValue(x, y) == x

ChipResult(res, row, cells, cps) == [res |-> res, row |-> row, cells |-> cells, copies |-> cps]

\* assign_first_row(a, b) on row r; f is the step the backend rejects.
AssignFirstRow(m, x, y, r, f) ==
  LET r0 == EmptyRow
      r1 == [r0 EXCEPT !.sel = TRUE]
      ra == AssignAdvice(m, FirstRowAValue(x, y), f = "a")
      r2 == [r1 EXCEPT !.a = Assigned(ra.val)]
      rb == AssignAdvice(m, FirstRowBValue(x, y), f = "b")
      r3 == [r2 EXCEPT !.b = Assigned(rb.val)]
      rc == AssignAdvice(m, FirstRowCValue(x, y), f = "c")
      r4 == [r3 EXCEPT !.c = Assigned(rc.val)]
  IN IF f = "enable" THEN ChipResult("Backend", r0, <<>>, {})
     ELSE IF ra.err # "none" THEN ChipResult(ra.err, r1, <<>>, {})
     ELSE IF rb.err # "none" THEN ChipResult(rb.err, r2, <<>>, {})
     ELSE IF rc.err # "none" THEN ChipResult(rc.err, r3, <<>>, {})
     ELSE ChipResult("Ok", r4,
                     <<ACell("a", r, ra.val), ACell("b", r, rb.val), ACell("c", r, rc.val)>>, {})

\* --------------------------------------------------------- assign_row
\* prev_b.value + prev_c.value
RowCValueMut(pb, pc_) == OptAdd(pb.val, pb.val)
RowCValue(pb, pc_) == OptAdd(pb.val, pc_.val)

\* AssignedCell::copy_advice: assign the source's value to the new cell, then
\* constrain the two cells equal.  A source without a position cannot be copied.
CopyAdvice(m, src, rejected) ==
  IF src = NoCell THEN [err |-> "Synthesis", val |-> None]
  ELSE AssignAdvice(m, src.val, rejected)

\* assign_row(prev_b, prev_c) on row r; f is the step the backend rejects.
\* The result of selector.enable (line 153) is not looked at: a rejected
\* enable leaves the selector off and the closure goes on.
AssignRow(m, pb, pc_, r, f) ==
  LET r0 == EmptyRow
      r1 == [r0 EXCEPT !.sel = (f # "enable")]
      ra == CopyAdvice(m, pb, f = "copy_a")
      r2 == [r1 EXCEPT !.a = Assigned(ra.val)]
      cpa == {<<[col |-> "a", row |-> r], [col |-> pb.col, row |-> pb.row]>>}
      rb == CopyAdvice(m, pc_, f = "copy_b")
      r3 == [r2 EXCEPT !.b = Assigned(rb.val)]
      cpb == {<<[col |-> "b", row |-> r], [col |-> pc_.col, row |-> pc_.row]>>}
      rc == AssignAdvice(m, RowCValue(pb, pc_), f = "c")
      r4 == [r3 EXCEPT !.c = Assigned(rc.val)]
  IN IF ra.err # "none" THEN ChipResult(ra.err, r1, <<>>, {})
     ELSE IF rb.err # "none" THEN ChipResult(rb.err, r2, <<>>, cpa)
     ELSE IF rc.err # "none" THEN ChipResult(rc.err, r3, <<>>, cpa \cup cpb)
     ELSE ChipResult("Ok", r4, <<ACell("c", r, rc.val)>>, cpa \cup cpb)

\* ------------------------------------------------------------ layouter
\* layouter.assign_region: every region is one row, at the next offset.
NextRow(t) == Len(t) + 1

\* --------------------------------------------------------- synthesize
\* prev_b = prev_c; prev_c = c_cell;
ThreadPrevBMut(pb, pc_) == pb
ThreadPrevB(pb, pc_) == pc_

CallRecord(op, r, f, pb, pc_, out) ==
  [op |-> op, row |-> r, fault |-> f, in_b |-> pb, in_c |-> pc_, res |-> out.res]

Init ==
  /\ mode \in Modes
  /\ a \in {None} \cup {Some(v) : v \in 0..MaxSeed}
  /\ b \in {None} \cup {Some(v) : v \in 0..MaxSeed}
  /\ cs = NoCs
  /\ pc = "configure"
  /\ i = LoopLo
  /\ trace = <<>>
  /\ copies = {}
  /\ prev_b = NoCell
  /\ prev_c = NoCell
  /\ calls = <<>>
  /\ faults = 0
  /\ ret = "none"
  /\ verdict = "none"

\* MockProver::run / keygen: Circuit::configure.
Configure ==
  /\ pc = "configure"
  /\ cs' = MyCircuitConfigure
  /\ pc' = "first_row"
  /\ UNCHANGED <<mode, a, b, i, trace, copies, prev_b, prev_c, calls, faults, ret, verdict>>

\* synthesize, lines 205-213: the chip is constructed and the first row assigned.
SynthFirstRow ==
  /\ pc = "first_row"
  /\ \E f \in FirstRowSteps \cup {"none"} :
       /\ f # "none" => faults < MaxFaults
       /\ LET r == NextRow(trace)
              out == AssignFirstRow(mode, a, b, r, f)
          IN /\ trace' = Append(trace, out.row)
             /\ copies' = copies \cup out.copies
             /\ prev_b' = IF out.res = "Ok" THEN out.cells[2] ELSE NoCell
             /\ prev_c' = IF out.res = "Ok" THEN out.cells[3] ELSE NoCell
             /\ calls' = Append(calls, CallRecord("assign_first_row", r, f, NoCell, NoCell, out))
             /\ faults' = IF f = "none" THEN faults ELSE faults + 1
  /\ i' = LoopLo
  /\ pc' = "loop"
  /\ UNCHANGED <<mode, a, b, cs, ret, verdict>>

\* synthesize, lines 216-225: one iteration of the loop.
SynthLoop ==
  /\ pc = "loop"
  /\ i < LoopHi
  /\ \E f \in RowSteps \cup {"none"} :
       /\ f # "none" => faults < MaxFaults
       /\ LET r == NextRow(trace)
              out == AssignRow(mode, prev_b, prev_c, r, f)
          IN /\ trace' = Append(trace, out.row)
             /\ copies' = copies \cup out.copies
             /\ prev_b' = ThreadPrevB(prev_b, prev_c)
             /\ prev_c' = IF out.res = "Ok" THEN out.cells[1] ELSE NoCell
             /\ calls' = Append(calls, CallRecord("assign_row", r, f, prev_b, prev_c, out))
             /\ faults' = IF f = "none" THEN faults ELSE faults + 1
  /\ i' = i + 1
  /\ UNCHANGED <<mode, a, b, cs, pc, ret, verdict>>

\* synthesize, line 227: Ok(()).
SynthReturn ==
  /\ pc = "loop"
  /\ i >= LoopHi
  /\ ret' = "Ok"
  /\ pc' = "done"
  /\ UNCHANGED <<mode, a, b, cs, i, trace, copies, prev_b, prev_c, calls, faults, verdict>>

\* ------------------------------------------------------------ verifier
CellAt(t, cell) == t[cell.row][cell.col]

\* The gate s * (a + b - c) on one row.
GateHolds(row) ==
  /\ row.a.set /\ row.b.set /\ row.c.set
  /\ IsSome(row.a.val) /\ IsSome(row.b.val) /\ IsSome(row.c.val)
  /\ FSub(FAdd(Get(row.a.val), Get(row.b.val)), Get(row.c.val)) = 0

CopyHolds(t, cp) ==
  /\ cp[1].row \in 1..Len(t) /\ cp[2].row \in 1..Len(t)
  /\ CellAt(t, cp[1]).val = CellAt(t, cp[2]).val

\* MockProver::verify: every gate on every enabled row, every copy constraint.
Satisfied(t, cps, gates) ==
  /\ \A g \in gates : \A r \in 1..Len(t) : t[r].sel => GateHolds(t[r])
  /\ \A cp \in cps : CopyHolds(t, cp)

\* main, line 248: prover.assert_satisfied().
Verify ==
  /\ pc = "done"
  /\ mode = "witness"
  /\ verdict' = IF Satisfied(trace, copies, cs.gates) THEN "Satisfied" ELSE "Unsatisfied"
  /\ pc' = "verified"
  /\ UNCHANGED <<mode, a, b, cs, i, trace, copies, prev_b, prev_c, calls, faults, ret>>

Next == Configure \/ SynthFirstRow \/ SynthLoop \/ SynthReturn \/ Verify

Spec == Init /\ [][Next]_vars

\* ================================================================ claims
\* The target row count N of the specification, and the number of assign_row
\* calls the loop `for _i in 3..10` makes.
ClaimN == 10
AssignRowCalls == 7

SeedsPresent == IsSome(a) /\ IsSome(b)
Finished == pc \in {"done", "verified"}
AllCallsOk == faults = 0 /\ \A k \in 1..Len(calls) : calls[k].res = "Ok"
NumCalls(op) == Cardinality({k \in 1..Len(calls) : calls[k].op = op})
FullRow(row) == row.a.set /\ row.b.set /\ row.c.set
ValuedRow(row) == FullRow(row) /\ IsSome(row.a.val) /\ IsSome(row.b.val) /\ IsSome(row.c.val)

\* f(0) = x, f(1) = y, f(n) = f(n-1) + f(n-2): the pair <<f(n), f(n+1)>>.
RECURSIVE FibPair(_, _, _)
FibPair(x, y, n) ==
  IF n = 0 THEN <<x, y>>
  ELSE LET q == FibPair(x, y, n - 1) IN <<q[2], FAdd(q[1], q[2])>>
\* fib(x, y, N) = f(N-1), so that fib(1, 1, 10) = 55.
Fib(x, y, n) == FibPair(x, y, n - 1)[1]

\* C1: with present seeds and every chip call successful, the verifier
\* reports Satisfied.
C1_AcceptedWhenSeedsPresent ==
  (pc = "verified" /\ SeedsPresent /\ AllCallsOk) => verdict = "Satisfied"

\* C2: with present seeds (x, y) the finished trace has a row of index N-1 = 9
\* whose c cell holds fib(x, y, N).
C2_LastRowIsFib ==
  (Finished /\ mode = "witness" /\ SeedsPresent /\ AllCallsOk)
    => /\ Len(trace) >= ClaimN
       /\ trace[ClaimN].c = Assigned(Some(Fib(Get(a), Get(b), ClaimN)))

\* C3: with present seeds, every fully assigned row whose selector is enabled
\* satisfies a + b = c in the field.
C3_GateSoundness ==
  (mode = "witness" /\ SeedsPresent)
    => \A r \in 1..Len(trace) :
         (trace[r].sel /\ ValuedRow(trace[r]))
           => FAdd(Get(trace[r].a.val), Get(trace[r].b.val)) = Get(trace[r].c.val)

\* C4: every row after the first holds in a the previous row's b and in b the
\* previous row's c; every successful assign_row call received cells holding
\* the previous row's b and c values (prev_c being the previous row's c cell)
\* and declared a copy constraint from each to the new row's a and b.
C4_CopySoundness ==
  /\ \A r \in 2..Len(trace) :
       /\ (trace[r].a.set /\ trace[r-1].b.set) => trace[r].a.val = trace[r-1].b.val
       /\ (trace[r].b.set /\ trace[r-1].c.set) => trace[r].b.val = trace[r-1].c.val
  /\ \A k \in 1..Len(calls) :
       (calls[k].op = "assign_row" /\ calls[k].res = "Ok")
         => LET r == calls[k].row
            IN /\ r >= 2
               /\ calls[k].in_b.val = trace[r-1].b.val
               /\ calls[k].in_c = ACell("c", r - 1, trace[r-1].c.val)
               /\ trace[r].a = Assigned(calls[k].in_b.val)
               /\ trace[r].b = Assigned(calls[k].in_c.val)
               /\ <<[col |-> "a", row |-> r],
                    [col |-> calls[k].in_b.col, row |-> calls[k].in_b.row]>> \in copies
               /\ <<[col |-> "b", row |-> r], [col |-> "c", row |-> r - 1]>> \in copies

\* C4 witness: three complete rows with distinct values threaded through.
C4_Witness ==
  /\ mode = "witness"
  /\ Len(trace) >= 3
  /\ \A r \in 1..3 : ValuedRow(trace[r])
  /\ calls[3].res = "Ok"
  /\ trace[3].a.val # trace[3].b.val

\* C5: assign_first_row with an absent seed returns Error::Synthesis.
C5_AbsentSeedRejected ==
  \A k \in 1..Len(calls) :
    (calls[k].op = "assign_first_row" /\ calls[k].fault = "none"
       /\ mode = "witness" /\ ~SeedsPresent)
      => calls[k].res = "Synthesis"

\* C6: if a step of an assign_row call (selector-enable, copy or c-assignment)
\* yields an error, the call reports the error, no further row is assigned and
\* synthesize does not return Ok.
C6_ErrorStopsSynthesis ==
  \A k \in 1..Len(calls) :
    (calls[k].op = "assign_row" /\ calls[k].in_b # NoCell /\ calls[k].in_c # NoCell
       /\ (calls[k].res # "Ok" \/ calls[k].fault # "none"))
      => /\ calls[k].res # "Ok"
         /\ k = Len(calls)
         /\ ret # "Ok"

\* C7: a successful assign_first_row(a0, b0) leaves row 0 with the selector
\* enabled and a0, b0, a0 + b0 in columns a, b, c.
C7_FirstRowContents ==
  (mode = "witness" /\ SeedsPresent /\ Len(calls) >= 1 /\ calls[1].res = "Ok")
    => trace[1] = [sel |-> TRUE, a |-> Assigned(a), b |-> Assigned(b),
                   c |-> Assigned(OptAdd(a, b))]

\* Every chip invocation has appended one row at the next unused offset.
RowPerInvocation ==
  /\ Len(trace) = Len(calls)
  /\ \A k \in 1..Len(calls) : calls[k].row = k
  /\ Len(calls) >= 1 => calls[1].op = "assign_first_row"
  /\ \A k \in 2..Len(calls) : calls[k].op = "assign_row"

\* C8 as stated: assign_first_row once, then assign_row N-2 = 8 times.
C8_RowCountAsStated ==
  /\ RowPerInvocation
  /\ Finished => (NumCalls("assign_first_row") = 1 /\ NumCalls("assign_row") = ClaimN - 2)

\* C8 amended: when synthesize returns, assign_first_row has been called once
\* and assign_row 7 times (the loop 3..10), which makes 8 rows; every chip
\* invocation appends one row at the next unused offset and no row is ever
\* removed or moved.
C8_RowCount ==
  /\ [](/\ RowPerInvocation
        /\ ret = "Ok" => (/\ NumCalls("assign_first_row") = 1
                          /\ NumCalls("assign_row") = AssignRowCalls
                          /\ Len(trace) = AssignRowCalls + 1))
  /\ [][/\ Len(trace') \in {Len(trace), Len(trace) + 1}
        /\ \A r \in 1..Len(trace) : trace'[r] = trace[r]]_vars

\* C8 witness: synthesize has returned with all its rows in place.
C8_Witness == pc = "done" /\ ret = "Ok" /\ Len(trace) = AssignRowCalls + 1 /\ AllCallsOk

\* C9: after configuration the table has 3 advice columns, 1 instance column,
\* equality on all four, one selector, and the one gate "add" on the config's
\* selector over columns a, b, c.
C9_ConfigurationShape ==
  pc # "configure"
    => /\ Cardinality(cs.advice) = 3
       /\ Cardinality(cs.instance) = 1
       /\ cs.equality = cs.advice \cup cs.instance
       /\ Cardinality(cs.selectors) = 1
       /\ cs.gates = {[name |-> "add", selector |-> cs.config_selector,
                       a |-> "a", b |-> "b", c |-> "c"]}
       /\ cs.config_selector \in cs.selectors

\* C10: an assign_row call the backend does not reject, given two real cells:
\* if a predecessor value is absent the row is allocated, its selector enabled,
\* both copy constraints declared and c left absent; if both are present c is
\* their sum.  No assign_row row ever holds a c value other than that sum.
C10_SuccessorRow ==
  \A k \in 1..Len(calls) :
    calls[k].op = "assign_row"
      => LET r == calls[k].row
             pb == calls[k].in_b
             pc_ == calls[k].in_c
             sum == OptAdd(pb.val, pc_.val)
         IN /\ (calls[k].fault = "none" /\ pb # NoCell /\ pc_ # NoCell)
                 => /\ calls[k].res = "Ok"
                    /\ trace[r].sel
                    /\ trace[r].a.set /\ trace[r].b.set
                    /\ <<[col |-> "a", row |-> r], [col |-> pb.col, row |-> pb.row]>> \in copies
                    /\ <<[col |-> "b", row |-> r], [col |-> pc_.col, row |-> pc_.row]>> \in copies
                    /\ trace[r].c = Assigned(sum)
            /\ (trace[r].c.set /\ IsSome(trace[r].c.val)) => trace[r].c.val = sum

\* C10 witness: a shape-only successor row, built from cells without values.
C10_Witness ==
  /\ mode = "shape"
  /\ SeedsPresent
  /\ Len(calls) >= 2
  /\ calls[2].fault = "none"
  /\ calls[2].in_b # NoCell /\ calls[2].in_c # NoCell
  /\ calls[2].in_b.val = None
  /\ trace[2].sel /\ trace[2].c = Assigned(None)

====
